---- MODULE Spec2Model ----
(***************************************************************************)
(* A model of log_buffer::LogBuffer (src/src/lib.rs): a ring buffer of     *)
(* bytes holding UTF-8 text, with a write cursor, an in-place rotation     *)
(* (the juggling algorithm) and two extractions, extract and               *)
(* extract_lines.                                                          *)
(*                                                                         *)
(* Bytes are the integers 0..255.  The storage is a function from the      *)
(* indices 0..len-1, as in the source, so index arithmetic reads as it     *)
(* does there.  String slices (&str) are sequences of bytes.               *)
(***************************************************************************)
EXTENDS Integers, Sequences, FiniteSets, TLC

VARIABLES
    buffer,     \* LogBuffer.buffer: the storage, a function 0..len-1 -> byte
    position,   \* LogBuffer.position: the next index written
    aborted,    \* "none", or the operation that panicked
    lastOp,     \* the last operation called: "new", "write_str", "clear", ...
    result,     \* what the last extraction returned (valid until the next call)
    written,    \* history: the bytes written since the last clear
    reused,     \* history: clear() was called after bytes had been written
    rot         \* the locals of rotate() while it runs step by step (SpecRotate)

vars == <<buffer, position, aborted, lastOp, result, written, reused, rot>>

(***************************************************************************)
(* Bounds of the model.                                                    *)
(***************************************************************************)
\* storage lengths 0..MaxCap
MaxCap == 4
\* characters in the text of one write
MaxText == 3
\* bytes written between two clears
MaxTotal == 6

(***************************************************************************)
(* Bytes and texts.                                                        *)
(***************************************************************************)
\* the byte clear() fills the storage with
Sentinel == 255
\* b'\n'
LF == 10
\* '\r', which str::lines drops before a line feed
CR == 13

\* The characters the texts are made of, as their UTF-8 encodings: 'a', '\n',
\* '\r', and the two-, three- and four-byte characters of the test cut_off_utf8.
Chars ==
    { <<97>>, <<LF>>, <<CR>>, <<208, 185>>, <<227, 129, 130>>,
      <<240, 159, 152, 138>> }

RECURSIVE as_bytes(_)
\* s.as_bytes() of a text given as a sequence of characters
as_bytes(t) ==
    IF t = <<>> THEN <<>> ELSE Head(t) \o as_bytes(Tail(t))

\* the well-formed texts (&str) a caller can pass to one write, as bytes
Texts ==
    { as_bytes(t) : t \in UNION { [1..n -> Chars] : n \in 0..MaxText } }

\* the texts of at most b bytes
TextsWithin ==
    [b \in 0..MaxTotal |-> { s \in Texts : Len(s) <= b }]

\* buffer.len()
len(buf) == Cardinality(DOMAIN buf)

\* &buffer[i..] as a sequence of bytes
SliceFrom(buf, i) ==
    [k \in 1..(len(buf) - i) |-> buf[i + k - 1]]

(***************************************************************************)
(* core::str::from_utf8: the well-formed byte sequences of the Unicode     *)
(* standard (no overlong forms, no surrogates, nothing above U+10FFFF).    *)
(***************************************************************************)
IsCont(b) == b >= 128 /\ b <= 191

RECURSIVE Utf8Valid(_)
Utf8Valid(s) ==
    IF s = <<>> THEN TRUE
    ELSE LET b == s[1]
             n == Len(s)
             rest(k) == SubSeq(s, k + 1, n)
         IN  IF b <= 127 THEN Utf8Valid(rest(1))
             ELSE IF b >= 194 /\ b <= 223
                  THEN n >= 2 /\ IsCont(s[2]) /\ Utf8Valid(rest(2))
             ELSE IF b >= 224 /\ b <= 239
                  THEN /\ n >= 3
                       /\ IsCont(s[2]) /\ IsCont(s[3])
                       /\ (b = 224 => s[2] >= 160)
                       /\ (b = 237 => s[2] <= 159)
                       /\ Utf8Valid(rest(3))
             ELSE IF b >= 240 /\ b <= 244
                  THEN /\ n >= 4
                       /\ IsCont(s[2]) /\ IsCont(s[3]) /\ IsCont(s[4])
                       /\ (b = 240 => s[2] >= 144)
                       /\ (b = 244 => s[2] <= 143)
                       /\ Utf8Valid(rest(4))
             ELSE FALSE

(***************************************************************************)
(* clear                                                                   *)
(***************************************************************************)
\* clear() resetting the cursor only, the bytes staying as they are
clear_buffer_keep(buf) == buf

\* the loop of clear(): every byte of the storage becomes 0xff
clear_buffer(buf) == [i \in DOMAIN buf |-> Sentinel]

\* is_empty(): the cursor is at 0 and the storage is zero-length or its last
\* byte is the sentinel
is_empty_of(buf, pos) ==
    pos = 0 /\ (len(buf) = 0 \/ buf[len(buf) - 1] = Sentinel)

(***************************************************************************)
(* write_str                                                               *)
(***************************************************************************)
\* the cursor not advanced
next_position_stuck(pos, n) == pos

\* the cursor advanced without the modulo
next_position_nowrap(pos, n) == pos + 1

\* (self.position + 1) % self.buffer.as_mut().len()
next_position(pos, n) == (pos + 1) % n

RECURSIVE write_bytes_preinc(_, _, _)
\* the loop advancing the cursor before it stores the byte
write_bytes_preinc(buf, pos, s) ==
    IF s = <<>> THEN [buffer |-> buf, position |-> pos, ok |-> TRUE]
    ELSE IF pos >= len(buf) THEN [buffer |-> buf, position |-> pos, ok |-> FALSE]
    ELSE LET np == next_position(pos, len(buf))
         IN  write_bytes_preinc([buf EXCEPT ![np] = Head(s)], np, Tail(s))

RECURSIVE write_bytes(_, _, _)
\* The loop of write_str over the bytes s, from storage buf and cursor pos.
\* Indexing a storage of length 0 panics at the first byte.
write_bytes(buf, pos, s) ==
    IF s = <<>> THEN [buffer |-> buf, position |-> pos, ok |-> TRUE]
    ELSE IF pos >= len(buf) THEN [buffer |-> buf, position |-> pos, ok |-> FALSE]
    ELSE write_bytes([buf EXCEPT ![pos] = Head(s)],
                     next_position(pos, len(buf)), Tail(s))

(***************************************************************************)
(* rotate: the juggling algorithm                                          *)
(***************************************************************************)
RECURSIVE gcd_loop(_, _)
gcd_loop(a, b) == IF b = 0 THEN a ELSE gcd_loop(b, a % b)

\* gcd returning the smaller of its arguments
gcd_smaller(a, b) == IF a < b THEN a ELSE b

\* gcd returning b, which is 0 when Euclid's loop ends, instead of a
gcd_returns_b(a, b) == 0

\* fn gcd: swap so that a >= b, then Euclid's loop
gcd(a, b) == IF a < b THEN gcd_loop(b, a) ELSE gcd_loop(a, b)

RECURSIVE rotate_cycle_lose_temp(_, _, _, _, _)
\* the inner loop closing a cycle with buffer[i], by then overwritten, instead
\* of temp
rotate_cycle_lose_temp(buf, rotate_by, i, j, temp) ==
    LET k0 == j + rotate_by
        k  == IF k0 >= len(buf) THEN k0 - len(buf) ELSE k0
    IN  IF k = i THEN [buf EXCEPT ![j] = buf[i]]
        ELSE rotate_cycle_lose_temp([buf EXCEPT ![j] = buf[k]], rotate_by,
                                    i, k, temp)

RECURSIVE rotate_cycle(_, _, _, _, _)
\* the inner loop of rotate for the cycle that starts at i, standing at j
rotate_cycle(buf, rotate_by, i, j, temp) ==
    LET k0 == j + rotate_by
        k  == IF k0 >= len(buf) THEN k0 - len(buf) ELSE k0
    IN  IF k = i THEN [buf EXCEPT ![j] = temp]
        ELSE rotate_cycle([buf EXCEPT ![j] = buf[k]], rotate_by, i, k, temp)

RECURSIVE rotate_from(_, _, _, _)
\* the outer loop of rotate: for i in i..g
rotate_from(buf, rotate_by, i, g) ==
    IF i >= g THEN buf
    ELSE rotate_from(rotate_cycle(buf, rotate_by, i, i, buf[i]),
                     rotate_by, i + 1, g)

\* rotate leaving the cursor where it was
rotate_position_kept(pos) == pos

\* the cursor after self.rotate(): self.position = 0
rotate_position(pos) == 0

\* rotate turning the storage to the right instead of to the left
rotate_right(buf, pos) ==
    IF pos = 0 THEN buf
    ELSE rotate_from(buf, len(buf) - pos, 0, gcd(len(buf), len(buf) - pos))

\* the storage after self.rotate() (position becomes 0)
rotate(buf, pos) == rotate_from(buf, pos, 0, gcd(len(buf), pos))

(***************************************************************************)
(* extract                                                                 *)
(***************************************************************************)
\* is_utf8_leader without its fourth pattern: four-byte leaders are missed
is_utf8_leader_no4(byte) ==
    \/ byte \div 128 = 0
    \/ byte \div 32 = 6
    \/ byte \div 16 = 14

\* is_utf8_leader with the mask 0b11000000 in its second pattern compared with
\* 0b10000000: continuation bytes pass for leaders
is_utf8_leader_loose(byte) ==
    \/ byte \div 128 = 0
    \/ byte \div 64 = 2
    \/ byte \div 16 = 14
    \/ byte \div 8 = 30

\* fn is_utf8_leader: the four leading-byte bit patterns
is_utf8_leader(byte) ==
    \/ byte \div 128 = 0      \* byte & 0b10000000 == 0b00000000
    \/ byte \div 32 = 6       \* byte & 0b11100000 == 0b11000000
    \/ byte \div 16 = 14      \* byte & 0b11110000 == 0b11100000
    \/ byte \div 8 = 30       \* byte & 0b11111000 == 0b11110000

\* the value of Iterator::position when nothing matches (None)
None == -1

\* buffer.iter().cloned().position(is_utf8_leader)
leader_position(buf) ==
    LET hits == { i \in DOMAIN buf : is_utf8_leader(buf[i]) }
    IN  IF hits = {} THEN None
        ELSE CHOOSE i \in hits : \A h \in hits : i <= h

\* extract slicing one byte late: &buffer[i + 1..]
extract_slice_late(buf, i) == SliceFrom(buf, i + 1)

\* the slice extract hands to from_utf8, given the position found
extract_slice(buf, i) == SliceFrom(buf, i)

(***************************************************************************)
(* extract_lines                                                           *)
(***************************************************************************)
\* the position of the last line feed instead of the first
newline_position_last(buf) ==
    LET hits == { i \in DOMAIN buf : buf[i] = LF }
    IN  IF hits = {} THEN None
        ELSE CHOOSE i \in hits : \A h \in hits : i >= h

\* extract_lines scanning, as extract does, for the first leading byte
newline_position_as_leader(buf) == leader_position(buf)

\* the scan for the line feed starting at index 1
newline_position_skip0(buf) ==
    LET hits == { i \in DOMAIN buf : buf[i] = LF /\ i >= 1 }
    IN  IF hits = {} THEN None
        ELSE CHOOSE i \in hits : \A h \in hits : i <= h

\* buffer.iter().cloned().position(|i| i == b'\n')
newline_position(buf) ==
    LET hits == { i \in DOMAIN buf : buf[i] = LF }
    IN  IF hits = {} THEN None
        ELSE CHOOSE i \in hits : \A h \in hits : i <= h

\* extract_lines slicing from the line feed itself: &buffer[i..]
lines_start_same(i) == i

\* the index extract_lines slices from: &buffer[i + 1..]
lines_start(i) == i + 1

\* index of the first line feed of s at or after k, or Len(s) + 1
RECURSIVE FindLF(_, _)
FindLF(s, k) ==
    IF k > Len(s) THEN k
    ELSE IF s[k] = LF THEN k ELSE FindLF(s, k + 1)

RECURSIVE lines_from(_, _, _, _)
\* str::lines over s from index k (1-based), base being the storage index of
\* s[1].  A line is a slice: off, its first index in the storage, and its
\* bytes.  A line ends before "\n" or "\r\n"; the last line need not be ended
\* by a line feed.  Whether a '\r' that ends an unterminated last line is
\* dropped depends on the version of the standard library: bareCR.
lines_from(s, k, base, bareCR) ==
    IF k > Len(s) THEN <<>>
    ELSE LET e    == FindLF(s, k)
             ended == e <= Len(s)
             strip == e > k /\ s[e - 1] = CR /\ (ended \/ bareCR)
             stop == IF strip THEN e - 2 ELSE e - 1
         IN  << [off |-> base + k - 1, bytes |-> SubSeq(s, k, stop)] >>
             \o lines_from(s, e + 1, base, bareCR)

\* s.lines() collected, s being &buffer[start..]
lines(s, start, bareCR) == lines_from(s, 1, start, bareCR)

(***************************************************************************)
(* The state machine.                                                      *)
(***************************************************************************)
NoResult == [start |-> None, text |-> <<>>, lines |-> <<>>]

\* rotate() not running.  pc is the place in rotate; rotate_by, g (the bound
\* of the for loop), i, j and temp are its locals; start, writes and closed
\* are history: the storage rotate() began with, the number of assignments to
\* each slot, and the number of cycles that closed at their start index.
RotIdle ==
    [pc |-> "idle", rotate_by |-> 0, g |-> 0, i |-> 0, j |-> 0, temp |-> 0,
     start |-> <<>>, writes |-> <<>>, closed |-> 0]

\* LogBuffer::new(storage): storage of any length, cleared
Init ==
    /\ \E cap \in 0..MaxCap :
          buffer = clear_buffer([i \in 0..(cap - 1) |-> 0])
    /\ position = 0
    /\ aborted = "none"
    /\ lastOp = "new"
    /\ result = NoResult
    /\ written = <<>>
    /\ reused = FALSE
    /\ rot = RotIdle

\* write_str(s) for a well-formed text s
write_str ==
    /\ aborted = "none"
    /\ Len(written) <= MaxTotal
    /\ \E s \in TextsWithin[MaxTotal - Len(written)] :
          LET w == write_bytes(buffer, position, s)
          IN  /\ buffer' = w.buffer
              /\ position' = w.position
              /\ aborted' = IF w.ok THEN "none" ELSE "write_str"
              /\ written' = IF w.ok THEN written \o s ELSE written
    /\ lastOp' = "write_str"
    /\ result' = NoResult
    /\ UNCHANGED <<reused, rot>>

\* clear()
clear ==
    /\ aborted = "none"
    /\ position' = 0
    /\ buffer' = clear_buffer(buffer)
    /\ lastOp' = "clear"
    /\ result' = NoResult
    /\ written' = <<>>
    /\ reused' = (reused \/ written # <<>>)
    /\ UNCHANGED <<aborted, rot>>

\* extract(): rotate, find the first leading byte, decode from there
extract ==
    /\ aborted = "none"
    /\ LET b == rotate(buffer, position)
           i == leader_position(b)
           s == IF i = None THEN <<>> ELSE extract_slice(b, i)
       IN  /\ buffer' = b
           /\ position' = rotate_position(position)
           /\ IF Utf8Valid(s)
              THEN /\ result' = [start |-> i, text |-> s, lines |-> <<>>]
                   /\ UNCHANGED aborted
              ELSE /\ result' = NoResult
                   /\ aborted' = "extract"
    /\ lastOp' = "extract"
    /\ UNCHANGED <<written, reused, rot>>

\* extract_lines(): rotate, find the first line feed, decode what follows it
\* and split it into lines
extract_lines ==
    /\ aborted = "none"
    /\ LET b == rotate(buffer, position)
           i == newline_position(b)
           from == IF i = None THEN None ELSE lines_start(i)
           s == IF i = None THEN <<>> ELSE SliceFrom(b, from)
       IN  /\ buffer' = b
           /\ position' = rotate_position(position)
           /\ IF Utf8Valid(s)
              THEN /\ \E bareCR \in BOOLEAN :
                        result' = [start |-> from, text |-> <<>>,
                                   lines |-> lines(s, from, bareCR)]
                   /\ UNCHANGED aborted
              ELSE /\ result' = NoResult
                   /\ aborted' = "extract_lines"
    /\ lastOp' = "extract_lines"
    /\ UNCHANGED <<written, reused, rot>>

Next == write_str \/ clear \/ extract \/ extract_lines

Spec == Init /\ [][Next]_vars

(***************************************************************************)
(* rotate() step by step: one action per loop iteration, from the states   *)
(* new() and one write lead to.                                            *)
(***************************************************************************)
InitRotate ==
    /\ \E cap \in 0..MaxCap : \E s \in TextsWithin[MaxTotal] :
          LET w == write_bytes(clear_buffer([i \in 0..(cap - 1) |-> 0]), 0, s)
          IN  /\ w.ok
              /\ buffer = w.buffer
              /\ position = w.position
              /\ written = s
    /\ aborted = "none"
    /\ lastOp = "write_str"
    /\ result = NoResult
    /\ reused = FALSE
    /\ rot = RotIdle

\* the index wrapping to 0 instead of going down by buffer.len()
next_in_cycle_zero(j, rotate_by, n) ==
    IF j + rotate_by >= n THEN 0 ELSE j + rotate_by

\* let mut k = j + rotate_by; if k >= buffer.len() { k -= buffer.len() }
next_in_cycle(j, rotate_by, n) ==
    IF j + rotate_by >= n THEN j + rotate_by - n ELSE j + rotate_by

\* let rotate_by = self.position; self.position = 0; and the bound of the for
\* loop, gcd(buffer.len(), rotate_by)
rotate_begin ==
    /\ rot.pc = "idle"
    /\ rot' = [rot EXCEPT !.pc = "for",
                          !.rotate_by = position,
                          !.g = gcd(len(buffer), position),
                          !.i = 0,
                          !.start = buffer,
                          !.writes = [x \in DOMAIN buffer |-> 0]]
    /\ position' = rotate_position(position)
    /\ UNCHANGED <<buffer, aborted, lastOp, result, written, reused>>

\* for i in 0..g: let temp = buffer[i]; let mut j = i; or the end of rotate
rotate_for ==
    /\ rot.pc = "for"
    /\ rot' = IF rot.i < rot.g
              THEN [rot EXCEPT !.pc = "loop", !.temp = buffer[rot.i],
                               !.j = rot.i]
              ELSE [rot EXCEPT !.pc = "done"]
    /\ UNCHANGED <<buffer, position, aborted, lastOp, result, written, reused>>

\* one turn of the inner loop: break when k == i, else buffer[j] = buffer[k]
rotate_loop ==
    /\ rot.pc = "loop"
    /\ LET k == next_in_cycle(rot.j, rot.rotate_by, len(buffer))
       IN  IF k = rot.i
           THEN /\ rot' = [rot EXCEPT !.pc = "close",
                                      !.closed = rot.closed + 1]
                /\ UNCHANGED buffer
           ELSE /\ buffer' = [buffer EXCEPT ![rot.j] = buffer[k]]
                /\ rot' = [rot EXCEPT !.j = k,
                                      !.writes[rot.j] = rot.writes[rot.j] + 1]
    /\ UNCHANGED <<position, aborted, lastOp, result, written, reused>>

\* buffer[j] = temp, and the next i
rotate_close ==
    /\ rot.pc = "close"
    /\ buffer' = [buffer EXCEPT ![rot.j] = rot.temp]
    /\ rot' = [rot EXCEPT !.pc = "for", !.i = rot.i + 1,
                          !.writes[rot.j] = rot.writes[rot.j] + 1]
    /\ UNCHANGED <<position, aborted, lastOp, result, written, reused>>

NextRotate == rotate_begin \/ rotate_for \/ rotate_loop \/ rotate_close

\* rotate() is sequential code: it takes its next step as long as it has one
SpecRotate == InitRotate /\ [][NextRotate]_vars /\ WF_vars(NextRotate)

(***************************************************************************)
(* What the claims speak of.                                               *)
(***************************************************************************)
\* the last n bytes of s
LastBytes(s, n) == SubSeq(s, Len(s) - n + 1, Len(s))

IsSuffix(t, s) == Len(t) <= Len(s) /\ t = LastBytes(s, Len(t))

\* the length of the character a leading byte announces
CharLen(b) ==
    IF b < 128 THEN 1 ELSE IF b < 224 THEN 2 ELSE IF b < 240 THEN 3 ELSE 4

RECURSIVE BoundariesFrom(_, _)
\* the character boundaries of the well-formed text s at or after offset k
\* (an offset is a number of bytes from the start of s)
BoundariesFrom(s, k) ==
    IF k >= Len(s) THEN {Len(s)}
    ELSE {k} \cup BoundariesFrom(s, k + CharLen(s[k + 1]))

Boundaries(s) == BoundariesFrom(s, 0)

AllAscii(s) == \A k \in 1..Len(s) : s[k] < 128

Extracted == lastOp = "extract" /\ aborted = "none"

\* C1: from a new or cleared buffer, while the texts written total at most
\* the capacity, extract() returns exactly all of the text written, in order,
\* whatever extractions came in between.
C1_ExtractReturnsAll ==
    (lastOp = "extract" /\ Len(written) <= len(buffer))
        => aborted = "none" /\ result.text = written

\* a full buffer holding a four-byte character, extracted whole
C1_Witness ==
    /\ Extracted
    /\ len(buffer) = 4
    /\ Len(written) = 4
    /\ \E k \in 1..4 : written[k] >= 240
    /\ result.text = written

\* C2: when more bytes than the capacity were written since the last clear,
\* extract() returns a suffix of the written text of at most capacity bytes
\* that begins at a character boundary of the written text.
C2_SuffixAtBoundary ==
    (lastOp = "extract" /\ Len(written) > len(buffer))
        => /\ aborted = "none"
           /\ IsSuffix(result.text, written)
           /\ Len(result.text) <= len(buffer)
           /\ (Len(written) - Len(result.text)) \in Boundaries(written)

\* an overfull buffer whose oldest surviving character is cut
C2_Witness ==
    /\ Extracted
    /\ Len(written) > len(buffer)
    /\ result.text # <<>>
    /\ Len(result.text) < len(buffer)

\* C3: with well-formed texts written to a buffer built by new(), neither
\* extract() nor extract_lines() ever aborts: what they hand to the decoder is
\* well-formed UTF-8.
C3_ExtractionNeverAborts ==
    aborted \notin {"extract", "extract_lines"}

\* extract_lines() decoded the storage of a buffer that begins with the cut
\* tail of a character and holds a multi-byte character after the line feed
C3_Witness ==
    /\ lastOp = "extract_lines"
    /\ aborted = "none"
    /\ Len(written) > len(buffer)
    /\ IsCont(buffer[0])
    /\ result.start # None
    /\ \E k \in DOMAIN buffer : k >= result.start /\ buffer[k] >= 192

\* C4: once at least capacity bytes were written since the last clear,
\* extract() returns the last capacity bytes of the written text less the
\* leading continuation bytes of the one character the wrap cut: at most 3
\* bytes, and nothing else, are dropped.
C4_OnlyTornBytesDropped ==
    (lastOp = "extract" /\ Len(written) >= len(buffer))
        => /\ aborted = "none"
           /\ LET w == LastBytes(written, len(buffer))
                  d == len(buffer) - Len(result.text)
                  cut == Len(written) - len(buffer)
              IN  /\ d >= 0 /\ d <= 3
                  /\ result.text = LastBytes(w, Len(result.text))
                  /\ \A k \in 1..d : IsCont(w[k])
                  /\ (cut + d) \in Boundaries(written)
                  /\ \A k \in cut..(cut + d - 1) : k \notin Boundaries(written)

\* three bytes of a four-byte character dropped, the rest returned
C4_Witness ==
    /\ Extracted
    /\ Len(written) > len(buffer)
    /\ Len(result.text) = len(buffer) - 3
    /\ result.text # <<>>

\* C5: k single-byte characters (0 <= k <= capacity) and then capacity
\* single-byte characters written to a new buffer: extract() returns exactly
\* the last capacity characters, in order.
C5_RoundTripEveryOffset ==
    (/\ lastOp = "extract"
     /\ AllAscii(written)
     /\ Len(written) >= len(buffer)
     /\ Len(written) <= 2 * len(buffer))
        => /\ aborted = "none"
           /\ result.text = LastBytes(written, len(buffer))

\* the round trip at the offset k = capacity, with different characters
C5_Witness ==
    /\ Extracted
    /\ len(buffer) = 3
    /\ Len(written) = 6
    /\ AllAscii(written)
    /\ written[4] # written[5]
    /\ result.text = LastBytes(written, 3)

(***************************************************************************)
(* Lines.  A yielded line is a slice of the storage; after an extraction   *)
(* the storage is linear, so storage index off holds the byte of the       *)
(* written text at offset off - (len - Len(written)).                      *)
(***************************************************************************)
ExtractedLines == lastOp = "extract_lines" /\ aborted = "none"

\* the storage as a sequence, index 1 being storage index 0
Linear == SliceFrom(buffer, 0)

\* the offset in the written text of the byte at storage index off
StreamOffset(off) == off - (len(buffer) - Len(written))

\* Where the line after the line s[st..e-1] begins: past the line feed at e,
\* or, with crlf, past the "\r\n" at e; past the end of s when the line runs
\* to the end of s, or when only a '\r' follows it (versions of str::lines
\* differ there, so either is taken for a line, with crlf or without); 0 when
\* the slice is not a line of s.
NextStart(s, st, e, crlf) ==
    IF e <= Len(s) /\ s[e] = LF
    THEN IF crlf /\ e > st /\ s[e - 1] = CR THEN 0 ELSE e + 1
    ELSE IF crlf /\ e + 1 <= Len(s) /\ s[e] = CR /\ s[e + 1] = LF THEN e + 2
    ELSE IF e = Len(s) + 1 THEN e
    ELSE IF e = Len(s) /\ s[e] = CR THEN e + 1
    ELSE 0

\* the lines L, the k-th beginning at index st(k) of s, are the lines of s
\* from index first on: one after the other, none left out, each the bytes
\* up to its line ending
IsLinesOf(L, st(_), s, first, crlf) ==
    IF first > Len(s) THEN L = <<>>
    ELSE /\ L # <<>>
         /\ st(1) = first
         /\ \A k \in 1..Len(L) :
               LET e  == st(k) + Len(L[k].bytes)
                   nx == NextStart(s, st(k), e, crlf)
               IN  /\ st(k) >= 1 /\ e <= Len(s) + 1
                   /\ L[k].bytes = SubSeq(s, st(k), e - 1)
                   /\ \A j \in 1..Len(L[k].bytes) : L[k].bytes[j] # LF
                   /\ nx # 0
                   /\ IF k < Len(L) THEN nx <= Len(s) /\ st(k + 1) = nx
                      ELSE nx > Len(s)

\* index of the first line feed of s, 0 when it has none
FirstLF(s) ==
    IF \E k \in 1..Len(s) : s[k] = LF
    THEN CHOOSE k \in 1..Len(s) : s[k] = LF /\ \A j \in 1..(k - 1) : s[j] # LF
    ELSE 0

\* C6 as stated: extract_lines() yields exactly the pieces between line feeds
\* of what follows the first line feed of the linearized storage, each
\* without its line feed, and nothing when there is no line feed or the first
\* one is the last byte.  (A carriage return at the very end of the storage
\* is not held against the statement.)
C6_SplitAtLineFeedsOnly ==
    ExtractedLines =>
        LET i == FirstLF(Linear)
            st(k) == result.lines[k].off + 1
        IN  IF i = 0 THEN result.lines = <<>>
            ELSE IsLinesOf(result.lines, st, Linear, i + 1, FALSE)

\* C6, amended: the pieces are the lines in the sense of str::lines: each
\* without its line feed and without a carriage return right before that line
\* feed (a carriage return ending the last, unterminated piece may be dropped
\* as well).
C6_LinesAfterFirstLineFeed ==
    /\ (lastOp = "extract_lines" => aborted = "none" /\ position = 0)
    /\ ExtractedLines =>
        LET i == FirstLF(Linear)
            st(k) == result.lines[k].off + 1
        IN  IF i = 0 THEN result.lines = <<>>
            ELSE IsLinesOf(result.lines, st, Linear, i + 1, TRUE)

\* a line written with the ending "\r\n" is yielded without either byte
C6_Witness ==
    /\ ExtractedLines
    /\ len(buffer) = 4
    /\ result.lines # <<>>
    /\ LET l == result.lines[1]
           e == l.off + Len(l.bytes)
       IN  /\ l.bytes # <<>>
           /\ e + 1 < len(buffer)
           /\ buffer[e] = CR /\ buffer[e + 1] = LF

\* C7: every line extract_lines() yields starts right after a line feed of
\* the text written since the last clear: the tail of a line whose start was
\* overwritten is not yielded.
C7_LinesStartAfterLineFeed ==
    /\ lastOp = "extract_lines" => aborted = "none"
    /\ ExtractedLines =>
        \A k \in 1..Len(result.lines) :
            LET sp == StreamOffset(result.lines[k].off)
            IN  /\ sp >= 1 /\ sp <= Len(written)
                /\ written[sp] = LF
                /\ result.lines[k].bytes
                     = SubSeq(written, sp + 1, sp + Len(result.lines[k].bytes))

\* the storage begins with the tail of an overwritten line, which is skipped
C7_Witness ==
    /\ ExtractedLines
    /\ Len(written) > len(buffer)
    /\ buffer[0] # LF /\ written[Len(written) - len(buffer)] # LF
    /\ result.lines # <<>>
    /\ result.lines[1].bytes # <<>>

\* the line beginning at offset sp of the written text, of n bytes, ends at a
\* line feed of the written text
EndsAtLineFeed(sp, n) ==
    \/ sp + n + 1 <= Len(written) /\ written[sp + n + 1] = LF
    \/ /\ sp + n + 2 <= Len(written)
       /\ written[sp + n + 1] = CR /\ written[sp + n + 2] = LF

\* it ends where the written text ends
EndsWithText(sp, n) ==
    \/ sp + n = Len(written)
    \/ sp + n + 1 = Len(written) /\ written[sp + n + 1] = CR

\* C8 as stated: every yielded line begins right after a line feed and was
\* terminated by a line feed in the text written since the last clear.
C8_OnlyTerminatedLines ==
    ExtractedLines =>
        \A k \in 1..Len(result.lines) :
            LET sp == StreamOffset(result.lines[k].off)
            IN  /\ sp >= 1 /\ written[sp] = LF
                /\ EndsAtLineFeed(sp, Len(result.lines[k].bytes))

\* C8, amended: every yielded line begins right after a line feed of the
\* written text and holds no line feed; all but the last end at a line feed,
\* and the last ends at a line feed or, not yet terminated, at the end of the
\* text written so far.
C8_WholeLinesLastMayBeOpen ==
    /\ lastOp = "extract_lines" => aborted = "none"
    /\ ExtractedLines =>
        \A k \in 1..Len(result.lines) :
            LET sp == StreamOffset(result.lines[k].off)
                n  == Len(result.lines[k].bytes)
            IN  /\ sp >= 1 /\ sp <= Len(written)
                /\ written[sp] = LF
                /\ \A j \in 1..n : written[sp + j] # LF
                /\ IF k < Len(result.lines) THEN EndsAtLineFeed(sp, n)
                   ELSE EndsAtLineFeed(sp, n) \/ EndsWithText(sp, n)

\* a terminated line followed by text no line feed has ended yet
C8_Witness ==
    /\ ExtractedLines
    /\ Len(result.lines) = 2
    /\ written[Len(written)] \notin {LF, CR}
    /\ result.lines[2].bytes # <<>>

\* C9: after clear(), while the writes total at most the capacity: if the
\* text begins with a line feed, extract_lines() yields every line of the
\* text after that line feed; if not, nothing of the text up to its first line
\* feed is yielded (nothing at all when it has no line feed).
C9_FirstLineNeedsLineFeed ==
    (lastOp = "extract_lines" /\ Len(written) <= len(buffer)) =>
        /\ aborted = "none"
        /\ LET st(k) == StreamOffset(result.lines[k].off) + 1
           IN  IF written # <<>> /\ written[1] = LF
               THEN IsLinesOf(result.lines, st, written, 2, TRUE)
               ELSE /\ FirstLF(written) = 0 => result.lines = <<>>
                    /\ \A k \in 1..Len(result.lines) : st(k) > FirstLF(written)

\* a first line written without a line feed before it is lost, the next kept
C9_Witness ==
    /\ ExtractedLines
    /\ Len(written) <= len(buffer)
    /\ written # <<>> /\ written[1] = 97
    /\ Len(result.lines) = 1
    /\ result.lines[1].bytes # <<>>

\* C10: clear() leaves the buffer as new() leaves one of the same capacity,
\* whatever came before, and every extraction returns only bytes written
\* since the last clear: nothing right after the clear.
C10_ClearForgetsHistory ==
    /\ lastOp = "clear" =>
          /\ buffer = [i \in DOMAIN buffer |-> 255]
          /\ position = 0
          /\ aborted = "none"
    /\ lastOp = "extract" =>
          /\ aborted = "none"
          /\ IsSuffix(result.text, written)
    /\ lastOp = "extract_lines" =>
          /\ aborted = "none"
          /\ \A k \in 1..Len(result.lines) :
                LET sp == StreamOffset(result.lines[k].off)
                IN  /\ sp >= 0
                    /\ result.lines[k].bytes
                         = SubSeq(written, sp + 1,
                                  sp + Len(result.lines[k].bytes))

\* a buffer cleared after use returns just the text written after the clear,
\* which does not fill it
C10_Witness ==
    /\ Extracted
    /\ reused
    /\ written # <<>>
    /\ Len(written) < len(buffer)
    /\ result.text = written

(***************************************************************************)
(* is_empty, write and the cursor.                                         *)
(***************************************************************************)
is_empty == is_empty_of(buffer, position)

\* C11: is_empty() is true exactly when no byte has been written since new()
\* or the last clear(), for every capacity and every sequence of calls, and
\* an extraction does not change what is_empty() returns.
C11_EmptyIffNothingWritten ==
    /\ [](is_empty <=> written = <<>>)
    /\ [][lastOp' \in {"extract", "extract_lines"} => is_empty' = is_empty]_vars

\* writes wrapped the cursor back to 0: the buffer is not empty
C11_Witness ==
    /\ lastOp = "write_str"
    /\ aborted = "none"
    /\ position = 0
    /\ len(buffer) > 1
    /\ written # <<>>
    /\ ~is_empty

\* C12: write never aborts, whatever the capacity and the length of the
\* text; on a buffer of capacity 0 it is a no-op.
C12_WriteNeverAborts ==
    aborted # "write_str"

\* C13: extract() called twice in a row, with no write or clear in between,
\* returns the same text both times, and the second call changes neither
\* the storage nor the cursor.
C13_ExtractTwiceSame ==
    [][(lastOp = "extract" /\ aborted = "none" /\ lastOp' = "extract")
          => /\ aborted' = "none"
             /\ result'.text = result.text
             /\ buffer' = buffer
             /\ position' = position]_vars

\* an extraction that rotated an overfull buffer and trimmed a cut character:
\* the state a second extract() starts from and ends in
C13_Witness ==
    /\ Extracted
    /\ position = 0
    /\ Len(written) > len(buffer)
    /\ result.start > 0
    /\ result.text # <<>>
    /\ \E k \in 1..Len(result.text) : result.text[k] >= 192

\* C14: the storage keeps the length it was constructed with, and the cursor
\* is an index of the storage: 0 <= position < capacity when capacity > 0,
\* position = 0 when capacity = 0.
C14_CursorWithinStorage ==
    /\ [](/\ DOMAIN buffer = 0..(len(buffer) - 1)
          /\ len(buffer) > 0 => position >= 0 /\ position < len(buffer)
          /\ len(buffer) = 0 => position = 0)
    /\ [][len(buffer)' = len(buffer)]_vars

\* the cursor after writes that went round the storage
C14_Witness ==
    /\ lastOp = "write_str"
    /\ aborted = "none"
    /\ len(buffer) = 4
    /\ Len(written) = 6
    /\ position = 2

Max(S) == CHOOSE x \in S : \A y \in S : x >= y

\* C15: write of n bytes at cursor p on a buffer of capacity C > 0 stores
\* byte i at index (p + i) mod C, a later byte overwriting an earlier one at
\* the same index, leaves position = (p + n) mod C and changes no slot but
\* the min(n, C) slots p, p + 1, ... (mod C); a write of no bytes changes
\* nothing.
C15_WriteFrame ==
    [][(lastOp' = "write_str" /\ aborted' = "none" /\ len(buffer) > 0)
          => LET C == len(buffer)
                 p == position
                 n == Len(written') - Len(written)
                 s == SubSeq(written', Len(written) + 1, Len(written'))
                 hits(i) == { j \in 0..(n - 1) : (p + j) % C = i }
                 touched == { i \in 0..(C - 1) : hits(i) # {} }
             IN  /\ written' = written \o s
                 /\ position' = (p + n) % C
                 /\ \A i \in 0..(C - 1) :
                       buffer'[i] = IF hits(i) = {} THEN buffer[i]
                                    ELSE s[Max(hits(i)) + 1]
                 /\ Cardinality(touched) = IF n < C THEN n ELSE C
                 /\ n = 0 => buffer' = buffer /\ position' = position]_vars

\* one write of a four-byte character to a buffer of capacity 1: each byte
\* overwrote the one before
C15_Witness ==
    /\ lastOp = "write_str"
    /\ aborted = "none"
    /\ len(buffer) = 1
    /\ written = <<240, 159, 152, 138>>
    /\ buffer[0] = 138
    /\ position = 0

(***************************************************************************)
(* The rotation.                                                           *)
(***************************************************************************)
RotateDone == rot.pc = "done"

\* how many slots of the storage buf hold the byte v
CountOf(buf, v) == Cardinality({ x \in DOMAIN buf : buf[x] = v })

\* the greatest common divisor, 0 for (0, 0)
GreatestDivisor(a, b) ==
    IF a = 0 /\ b = 0 THEN 0
    ELSE Max({ d \in 1..(a + b) : a % d = 0 /\ b % d = 0 })

\* C16: rotate is a left rotation by position: for a storage of any length C
\* and a cursor p, afterwards the byte at each index i is the byte that was
\* at index (i + p) mod C, position is 0 and the bytes stored are the same
\* ones, also when gcd(C, p) > 1 and when p = 0.  Run step by step or taken
\* as the one step of extract and extract_lines, it gives the same storage.
C16_RotateLeftByPosition ==
    RotateDone =>
        LET C == len(buffer)
            p == rot.rotate_by
        IN  /\ DOMAIN rot.start = DOMAIN buffer
            /\ \A x \in 0..(C - 1) : buffer[x] = rot.start[(x + p) % C]
            /\ position = 0
            /\ \A v \in 0..255 : CountOf(buffer, v) = CountOf(rot.start, v)
            /\ buffer = rotate(rot.start, p)

\* a rotation of two cycles, gcd(4, 2) = 2, that changed the storage
C16_Witness ==
    /\ RotateDone
    /\ len(buffer) = 4
    /\ rot.rotate_by = 2
    /\ buffer # rot.start

\* C17: the rotation terminates for every capacity C and cursor p, each of
\* its gcd(C, p) cycles closing at its start index, and it assigns every
\* slot of the storage exactly once.
C17_RotateTerminates ==
    /\ <>RotateDone
    /\ [](RotateDone =>
            /\ \A x \in DOMAIN buffer : rot.writes[x] = 1
            /\ rot.closed = GreatestDivisor(len(buffer), rot.rotate_by)
            /\ rot.i = rot.closed)

\* a finished rotation of one cycle through all four slots
C17_Witness ==
    /\ RotateDone
    /\ len(buffer) = 4
    /\ rot.rotate_by = 3
    /\ rot.closed = 1
    /\ \A x \in DOMAIN buffer : rot.writes[x] = 1

(***************************************************************************)
(* The ring as a window on the written text.                               *)
(***************************************************************************)
\* the last capacity bytes of: capacity sentinel bytes, then the text written
\* since the last clear
Window ==
    LastBytes([k \in 1..len(buffer) |-> 255] \o written, len(buffer))

\* C18: in every reachable state the storage read circularly from position
\* is the last capacity bytes of capacity sentinel bytes followed by all
\* bytes written since the last clear: the oldest bytes go first, and the
\* newest byte is the last one after linearization.
C18_RingIsWindow ==
    \A x \in 0..(len(buffer) - 1) :
        buffer[(position + x) % len(buffer)] = Window[x + 1]

\* writes after an extraction overwrote the oldest bytes of an overfull
\* buffer: the cursor is not where writes alone would have left it
C18_Witness ==
    /\ lastOp = "write_str"
    /\ aborted = "none"
    /\ len(buffer) = 3
    /\ Len(written) = 5
    /\ position = 1
    /\ written[5] = 97
    /\ buffer[0] = 97

\* what extract() would return, called with storage buf and cursor pos
WouldExtract(buf, pos) ==
    LET b == rotate(buf, pos)
        i == leader_position(b)
    IN  IF i = None THEN <<>> ELSE extract_slice(b, i)

\* what extract_lines() would yield
WouldExtractLines(buf, pos, bareCR) ==
    LET b == rotate(buf, pos)
        i == newline_position(b)
    IN  IF i = None THEN <<>>
        ELSE lines(SliceFrom(b, lines_start(i)), lines_start(i), bareCR)

\* the buffer had the text written since the last clear been written to a
\* new buffer of the same capacity, no extraction in between
Undisturbed == write_bytes(clear_buffer(buffer), 0, written)

\* C19: extractions do not show in later extractions: whatever extract() and
\* extract_lines() calls came between the writes, an extraction returns what
\* it returns when the same text is written with no extraction in between.
C19_ExtractionTransparent ==
    aborted = "none" =>
        /\ WouldExtract(buffer, position)
             = WouldExtract(Undisturbed.buffer, Undisturbed.position)
        /\ \A b \in BOOLEAN :
              WouldExtractLines(buffer, position, b)
                = WouldExtractLines(Undisturbed.buffer,
                                    Undisturbed.position, b)
        /\ lastOp = "extract" =>
              result.text
                = WouldExtract(Undisturbed.buffer, Undisturbed.position)
        /\ lastOp = "extract_lines" =>
              \E b \in BOOLEAN :
                 result.lines
                   = WouldExtractLines(Undisturbed.buffer,
                                       Undisturbed.position, b)

\* a buffer written, extracted and written again, so that its storage differs
\* from the undisturbed one, about to be extracted
C19_Witness ==
    /\ lastOp = "write_str"
    /\ aborted = "none"
    /\ Len(written) > len(buffer)
    /\ buffer # Undisturbed.buffer
    /\ position # Undisturbed.position
    /\ Len(WouldExtract(buffer, position)) = len(buffer) - 1

\* the offset in the written text w at which the text extract() would return
\* begins
ExtractStartOf(buf, pos, w) == Len(w) - Len(WouldExtract(buf, pos))

ExtractStart == ExtractStartOf(buffer, position, written)

\* C20: between two clears the offset in the written text at which the text
\* returned by extract() begins never decreases, whatever is written between
\* the extractions: a byte dropped once stays dropped.
C20_DroppedStaysDropped ==
    /\ [](Extracted => Len(written) - Len(result.text) = ExtractStart)
    /\ [][(lastOp' # "clear" /\ aborted' = "none")
             => ExtractStartOf(buffer', position', written')
                  >= ExtractStart]_vars

\* an extraction that begins past bytes an earlier one could still return
C20_Witness ==
    /\ Extracted
    /\ len(buffer) = 4
    /\ Len(written) = 6
    /\ Len(result.text) = 3

====
